---- MODULE Spec2Model ----
(***************************************************************************)
(* Model of LinearSystemLibrary/methodsDeepseek.py: the name dispatcher    *)
(* solve_linear_system and the four iterative solvers jacobi, gauss_seidel,*)
(* gradient and conjugate_gradient, driven by a caller that builds the     *)
(* problem as create_problem of main.py does and then makes solver calls   *)
(* on the same A and b objects, as run_experiments does.                   *)
(*                                                                         *)
(* Numbers.  The code computes in float64.  The model computes in exact    *)
(* rational arithmetic, extended with the non-finite values a division by  *)
(* zero produces in numpy (inf, -inf, nan).  A number is a pair <<n, d>>:  *)
(*    d > 0   the rational n/d in lowest terms                             *)
(*    d = 0   non-finite: <<1,0>> = inf, <<-1,0>> = -inf, <<0,0>> = nan    *)
(*    d = -1  a value whose exact representation does not fit the          *)
(*            checker's integers; a solve that meets one is not continued  *)
(* Rounding error and signed zeros are not modelled.  A norm is modelled   *)
(* by its square (a sum of squares stays rational, a square root does      *)
(* not); since norms are non-negative,  norm(u)/norm(v) < tol  is decided  *)
(* as  (u.u)/(v.v) < tol*tol,  and the relative error is reported squared. *)
(* The elapsed-time component of the result tuple is not modelled.         *)
(***************************************************************************)
EXTENDS Integers, Sequences, FiniteSets, TLC

VARIABLES heap, given, env, pc, fr, log

vars == <<heap, given, env, pc, fr, log>>

-----------------------------------------------------------------------------
(* Bounds of the model *)

\* largest matrix dimension n
MaxDim == 3
\* diagonal entries start in 1..MaxDiag
MaxDiag == 3
\* max_iter arguments are drawn from 0..MaxIter
MaxIter == 3
\* solver calls made by one caller
MaxCalls == 2

\* largest magnitude kept in a numerator or denominator: two such values
\* can still be added and compared in the checker's 32-bit integers
IntLimit == 2^30 - 1

-----------------------------------------------------------------------------
(* Integer helpers *)

Abs(a) == IF a < 0 THEN -a ELSE a

Sgn(a) == IF a > 0 THEN 1 ELSE IF a < 0 THEN -1 ELSE 0

RECURSIVE GCD(_, _)
GCD(a, b) == IF b = 0 THEN a ELSE GCD(b, a % b)

\* a * b stays within IntLimit
FitsMul(a, b) == a = 0 \/ Abs(b) <= IntLimit \div Abs(a)

-----------------------------------------------------------------------------
(* Extended rational numbers *)

Zero == <<0, 1>>
One == <<1, 1>>
NaN == <<0, 0>>
Inf(s) == <<s, 0>>
OutOfRange == <<0, -1>>

R(i) == <<i, 1>>

IsOut(a) == a[2] < 0
IsFinite(a) == a[2] > 0
IsNaN(a) == a = NaN

\* n/d with the common factor g taken out and the sign in the numerator
Reduce(n, d, g) ==
    IF d < 0 THEN <<(-n) \div g, (-d) \div g>> ELSE <<n \div g, d \div g>>

\* n/d in lowest terms, d # 0
Norm(n, d) ==
    IF Abs(n) > IntLimit \/ Abs(d) > IntLimit THEN OutOfRange
    ELSE Reduce(n, d, GCD(Abs(n), Abs(d)))

\* a + b for finite a and b, over the least common denominator ad * b[2],
\* where ad and bd are the denominators without their common factor
AddOver(a, b, ad, bd) ==
    IF FitsMul(a[1], bd) /\ FitsMul(b[1], ad) /\ FitsMul(ad, b[2])
    THEN Norm(a[1] * bd + b[1] * ad, ad * b[2])
    ELSE OutOfRange

\* (an/ad) * (bn/bd) when the four share no factor across the fraction bar
MulReduced(an, bn, ad, bd) ==
    IF FitsMul(an, bn) /\ FitsMul(ad, bd) THEN <<an * bn, ad * bd>>
    ELSE OutOfRange

\* a * b for finite a and b, g1 and g2 the factors to cancel crosswise
MulCancel(a, b, g1, g2) ==
    MulReduced(a[1] \div g1, b[1] \div g2, a[2] \div g2, b[2] \div g1)

RNeg(a) == IF IsOut(a) THEN a ELSE <<-a[1], a[2]>>

RAdd(a, b) ==
    IF IsOut(a) \/ IsOut(b) THEN OutOfRange
    ELSE IF IsNaN(a) \/ IsNaN(b) THEN NaN
    ELSE IF a[2] = 0 /\ b[2] = 0 THEN (IF a[1] = b[1] THEN a ELSE NaN)
    ELSE IF a[2] = 0 THEN a
    ELSE IF b[2] = 0 THEN b
    ELSE AddOver(a, b, a[2] \div GCD(a[2], b[2]), b[2] \div GCD(a[2], b[2]))

RSub(a, b) == RAdd(a, RNeg(b))

RMul(a, b) ==
    IF IsOut(a) \/ IsOut(b) THEN OutOfRange
    ELSE IF IsNaN(a) \/ IsNaN(b) THEN NaN
    ELSE IF a[2] = 0 \/ b[2] = 0
         THEN (IF a[1] = 0 \/ b[1] = 0 THEN NaN ELSE Inf(Sgn(a[1]) * Sgn(b[1])))
    ELSE MulCancel(a, b, GCD(Abs(a[1]), b[2]), GCD(Abs(b[1]), a[2]))

\* IEEE division: x/0 is inf (nan for 0/0), x/inf is 0, inf/inf is nan
RDiv(a, b) ==
    IF IsOut(a) \/ IsOut(b) THEN OutOfRange
    ELSE IF IsNaN(a) \/ IsNaN(b) THEN NaN
    ELSE IF a[2] = 0
         THEN (IF b[2] = 0 THEN NaN ELSE Inf(IF b[1] < 0 THEN -a[1] ELSE a[1]))
    ELSE IF b[2] = 0 THEN Zero
    ELSE IF b[1] = 0 THEN (IF a[1] = 0 THEN NaN ELSE Inf(Sgn(a[1])))
    ELSE RMul(a, IF b[1] > 0 THEN <<b[2], b[1]>> ELSE <<-b[2], -b[1]>>)

\* a < 1/(t*t) for a positive integer t, without forming t*t; every
\* comparison with nan is false
RLessInvSq(a, t) ==
    /\ ~IsOut(a)
    /\ ~IsNaN(a)
    /\ \/ (a[2] = 0 /\ a[1] < 0)
       \/ (a[2] > 0 /\ a[1] <= ((a[2] - 1) \div t) \div t)

-----------------------------------------------------------------------------
(* Vectors (sequences of numbers) and integer matrices (sequences of rows) *)

RECURSIVE DotFrom(_, _, _)
DotFrom(u, v, i) ==
    IF i > Len(u) THEN Zero ELSE RAdd(RMul(u[i], v[i]), DotFrom(u, v, i + 1))

\* numpy dot of two dense vectors
Dot(u, v) == DotFrom(u, v, 1)

\* the sequence v with its elements computed once
Vec(v) == v \o <<>>

VAdd(u, v) == Vec([i \in 1..Len(u) |-> RAdd(u[i], v[i])])
VSub(u, v) == Vec([i \in 1..Len(u) |-> RSub(u[i], v[i])])
VScale(c, v) == Vec([i \in 1..Len(v) |-> RMul(c, v[i])])
ZerosLike(v) == Vec([i \in 1..Len(v) |-> Zero])
Ones(n) == Vec([i \in 1..n |-> One])

VecOut(v) == \E i \in 1..Len(v) : IsOut(v[i])
VecFinite(v) == \A i \in 1..Len(v) : IsFinite(v[i])

RECURSIVE SparseRowFrom(_, _, _)
SparseRowFrom(row, v, j) ==
    IF j > Len(row) THEN Zero
    ELSE IF row[j] = 0 THEN SparseRowFrom(row, v, j + 1)
    ELSE RAdd(RMul(R(row[j]), v[j]), SparseRowFrom(row, v, j + 1))

\* scipy sparse A.dot(v): only the stored (nonzero) entries take part
SparseDot(A, v) == Vec([i \in 1..Len(A) |-> SparseRowFrom(A[i], v, 1)])

-----------------------------------------------------------------------------
(* Method identifiers.  A Python str is modelled as the sequence of its    *)
(* characters, so that lower() and replace() act character by character.   *)

\* 'jacobi'
K_jacobi == <<"j", "a", "c", "o", "b", "i">>
\* 'gauss_seidel'
K_gauss_seidel == <<"g", "a", "u", "s", "s", "_", "s", "e", "i", "d", "e", "l">>
\* 'gs'
K_gs == <<"g", "s">>
\* 'gradient'
K_gradient == <<"g", "r", "a", "d", "i", "e", "n", "t">>
\* 'grad'
K_grad == <<"g", "r", "a", "d">>
\* 'conjugate_gradient'
K_conjugate_gradient == <<"c", "o", "n", "j", "u", "g", "a", "t", "e", "_", "g", "r", "a", "d", "i", "e", "n", "t">>
\* 'cg'
K_cg == <<"c", "g">>
\* 'gradiente'
K_gradiente == <<"g", "r", "a", "d", "i", "e", "n", "t", "e">>
\* 'gradiente_coniugato'
K_gradiente_coniugato == <<"g", "r", "a", "d", "i", "e", "n", "t", "e", "_", "c", "o", "n", "i", "u", "g", "a", "t", "o">>

\* identifiers a caller may pass besides the keys above
\* 'Jacobi'
Id_Jacobi == <<"J", "a", "c", "o", "b", "i">>
\* 'Gauss-Seidel'
Id_Gauss_Seidel == <<"G", "a", "u", "s", "s", "-", "S", "e", "i", "d", "e", "l">>
\* 'GAUSS SEIDEL'
Id_GAUSS_SEIDEL == <<"G", "A", "U", "S", "S", " ", "S", "E", "I", "D", "E", "L">>
\* 'Conjugate Gradient'
Id_Conjugate_Gradient == <<"C", "o", "n", "j", "u", "g", "a", "t", "e", " ", "G", "r", "a", "d", "i", "e", "n", "t">>
\* 'CG'
Id_CG == <<"C", "G">>
\* 'sor'
Id_sor == <<"s", "o", "r">>
\* 'gauss'
Id_gauss == <<"g", "a", "u", "s", "s">>
\* 'jacobi ' (trailing blank)
Id_jacobi_sp == <<"j", "a", "c", "o", "b", "i", " ">>

UpperCase == <<"A", "B", "C", "D", "E", "F", "G", "H", "I", "J", "K", "L", "M", "N", "O", "P", "Q", "R", "S", "T", "U", "V", "W", "X", "Y", "Z">>
LowerCase == <<"a", "b", "c", "d", "e", "f", "g", "h", "i", "j", "k", "l", "m", "n", "o", "p", "q", "r", "s", "t", "u", "v", "w", "x", "y", "z">>

\* str.lower() on the ASCII letters
LowerChar(c) ==
    IF \E i \in 1..26 : UpperCase[i] = c
    THEN LowerCase[CHOOSE i \in 1..26 : UpperCase[i] = c]
    ELSE c

StrLower(s) == [i \in 1..Len(s) |-> LowerChar(s[i])]

\* str.replace(old, new) for one-character old and new
StrReplace(s, old, new) == [i \in 1..Len(s) |-> IF s[i] = old THEN new ELSE s[i]]

\* method.lower().replace('-', '_').replace(' ', '_')
NormalizeMethod(m) == StrReplace(StrReplace(StrLower(m), "-", "_"), " ", "_")

\* method_map with 'gs' bound to the wrong solver
MethodMapGsJacobi ==
    (K_jacobi :> "jacobi") @@
    (K_gauss_seidel :> "gauss_seidel") @@
    (K_gs :> "jacobi") @@
    (K_gradient :> "gradient") @@
    (K_grad :> "gradient") @@
    (K_conjugate_gradient :> "conjugate_gradient") @@
    (K_cg :> "conjugate_gradient") @@
    (K_gradiente :> "gradient") @@
    (K_gradiente_coniugato :> "conjugate_gradient")

\* method_map: normalized name -> solver function
MethodMap ==
    (K_jacobi :> "jacobi") @@
    (K_gauss_seidel :> "gauss_seidel") @@
    (K_gs :> "gauss_seidel") @@
    (K_gradient :> "gradient") @@
    (K_grad :> "gradient") @@
    (K_conjugate_gradient :> "conjugate_gradient") @@
    (K_cg :> "conjugate_gradient") @@
    (K_gradiente :> "gradient") @@
    (K_gradiente_coniugato :> "conjugate_gradient")

\* a lookup that falls back to a default solver instead of raising
ResolveWithDefault(name) ==
    IF name \in DOMAIN MethodMap THEN MethodMap[name] ELSE "jacobi"

\* the solver solve_linear_system calls for a normalized name, or
\* "ValueError" when the name is not a key of method_map
Resolve(name) ==
    IF name \in DOMAIN MethodMap THEN MethodMap[name] ELSE "ValueError"

-----------------------------------------------------------------------------
(* The caller's problem: main.py builds b = A.dot(ones) for a loaded A.     *)
(* The matrices here are tridiagonal with a nonzero diagonal.              *)

\* n x n, diagonal d0, d0+s, d0+2s, ..., subdiagonal lo, superdiagonal up
TriDiag(n, d0, s, lo, up) ==
    [i \in 1..n |-> [j \in 1..n |->
        IF j = i THEN d0 + s * (i - 1)
        ELSE IF j = i - 1 THEN lo
        ELSE IF j = i + 1 THEN up
        ELSE 0]]

OffDiag == {-1, 0, 1}

AllMatrices ==
    {TriDiag(n, d0, s, lo, up) :
        n \in 1..MaxDim, d0 \in 1..MaxDiag, s \in {0, 1}, lo \in OffDiag, up \in OffDiag}

\* symmetric, growing diagonal
SessionMatrices ==
    {TriDiag(MaxDim, d0, 1, o, o) : d0 \in {MaxDiag - 1, MaxDiag}, o \in {-1, 0}}

DispatchMatrices == {TriDiag(MaxDim, MaxDiag, 1, o, o) : o \in {-1, 0}}

\* tolerances 1e-1, 1e-4 and 1e-8, as numbers 1/t
Tols == {<<1, 10>>, <<1, 10000>>, <<1, 100000000>>}

CanonicalIds == {K_jacobi, K_gauss_seidel, K_gradient, K_conjugate_gradient}

AllIds ==
    {K_jacobi, K_gauss_seidel, K_gs, K_gradient, K_grad, K_conjugate_gradient,
     K_cg, K_gradiente, K_gradiente_coniugato, Id_Jacobi, Id_Gauss_Seidel,
     Id_GAUSS_SEIDEL, Id_Conjugate_Gradient, Id_CG, Id_sor, Id_gauss, Id_jacobi_sp}

\* create_problem: x_exact = np.ones(n); b = A.dot(x_exact)
CreateProblem(A) ==
    [x_exact |-> Ones(Len(A)), b |-> SparseDot(A, Ones(Len(A)))]

\* the locals of a solver call that is not running
NoFrame ==
    [id |-> <<>>, callee |-> "", tol |-> Zero, max_iter |-> 0, xe |-> <<>>,
     k |-> 0, kBound |-> FALSE, rref |-> "r", p |-> <<>>, rsold |-> Zero,
     trace |-> <<>>]

InitWith(matrices, ids, tols, iters, scales, calls) ==
    /\ env = [ids |-> ids, tols |-> tols, iters |-> iters, scales |-> scales,
              calls |-> calls]
    /\ \E A \in matrices :
         LET prob == CreateProblem(A)
         IN /\ heap = [A |-> A, b |-> prob.b, x_exact |-> prob.x_exact,
                       x |-> <<>>, r |-> <<>>]
            /\ given = [A |-> A, b |-> prob.b]
    /\ pc = "idle"
    /\ fr = NoFrame
    /\ log = <<>>

\* one call of any solver on every problem
Init ==
    InitWith(AllMatrices, CanonicalIds \cup {Id_sor}, Tols, 0..MaxIter, {1}, 1)

\* a caller making several calls on the same A and b, as run_experiments does
InitSession ==
    InitWith(SessionMatrices, CanonicalIds \cup {Id_sor}, {<<1, 10>>},
             {0, 1, MaxIter}, {1, 2}, MaxCalls)

\* a caller trying every spelling of the method name
InitDispatch ==
    InitWith(DispatchMatrices, AllIds, {<<1, 10>>}, {MaxIter}, {1}, MaxCalls)

-----------------------------------------------------------------------------
(* Pieces shared by the four solvers *)

\* norm(u)/norm(v), squared
NormRatio(u, v) == RDiv(Dot(u, u), Dot(v, v))

\* rel_res < tol, on the squares; tol = <<1, t>>
BelowTol(relResSq, tol) == RLessInvSq(relResSq, tol[2])

\* error = norm(x - x_exact) / norm(x_exact), squared
RelErr(x, x_exact) == NormRatio(VSub(x, x_exact), x_exact)

\* the value for k of the next pass of  for k in range(max_iter)
NextK(f) == IF f.kBound THEN f.k + 1 ELSE 0

\* the loop is left: by break, or range(max_iter) is exhausted
LoopLeft(f, at) == at = "break" \/ (at = "loop" /\ NextK(f) >= f.max_iter)

\* the loop index returned as it is
ReturnCountIndex(k) == k

\* the iteration count in the returned tuple: k + 1
ReturnCount(k) == k + 1

\* the iteration started from the caller's x_exact
InitialGuessFromExact(h) == h.x_exact

\* x = np.zeros_like(b)
InitialGuess(h) == ZerosLike(h.b)

\* what one pass of a loop leaves behind, kept for the record of the call:
\* x the iterate whose residual was tested, r the residual vector and p the
\* direction at the end of the pass (gradient, conjugate_gradient), rel the
\* squared relative residual tested
Pass(x, r, p, rel) == [x |-> x, r |-> r, p |-> p, rel |-> rel]

PassFits(ps) ==
    ~VecOut(ps.x) /\ ~VecOut(ps.r) /\ ~VecOut(ps.p) /\ ~IsOut(ps.rel)

\* a call that ended with an exception
Raised(f, what) ==
    [id |-> f.id, tol |-> f.tol, max_iter |-> f.max_iter, xe |-> f.xe,
     outcome |-> what, x |-> <<>>, iters |-> 0, err |-> NaN, exit |-> "",
     trace |-> <<>>]

\* error = ...; return x, k + 1, process_time() - start_time, error
\* (k is unbound when the loop body never ran)
Returned(f, h, at) ==
    IF f.kBound
    THEN [id |-> f.id, tol |-> f.tol, max_iter |-> f.max_iter, xe |-> f.xe,
          outcome |-> "returned", x |-> h.x, iters |-> ReturnCount(f.k),
          err |-> RelErr(h.x, h.x_exact),
          exit |-> IF at = "break" THEN "break" ELSE "exhausted",
          trace |-> f.trace]
    ELSE Raised(f, "UnboundLocalError")

Return(callee) ==
    /\ fr.callee = callee
    /\ LoopLeft(fr, pc)
    /\ \E e \in {Returned(fr, heap, pc)} :
          /\ ~IsOut(e.err)
          /\ log' = Append(log, e)
    /\ pc' = "idle"
    /\ fr' = NoFrame
    /\ heap' = [heap EXCEPT !.x = <<>>, !.r = <<>>]
    /\ UNCHANGED <<given, env>>

\* the frame after a pass that tested ps
Passed(f, ps) ==
    [f EXCEPT !.k = NextK(f), !.kBound = TRUE, !.trace = Append(@, ps)]

-----------------------------------------------------------------------------
(* solve_linear_system *)

Call(id, tol, max_iter, scale) ==
    /\ pc = "idle"
    /\ Len(log) < env.calls
    \* an exception is not caught by the caller: no call follows it
    /\ log # <<>> => log[Len(log)].outcome = "returned"
    /\ \E callee \in {Resolve(NormalizeMethod(id))} :
       \E xe \in {VScale(R(scale), Ones(Len(heap.A)))} :
       \E f \in {[NoFrame EXCEPT !.id = id, !.callee = callee, !.tol = tol,
                                 !.max_iter = max_iter, !.xe = xe]} :
          /\ heap' = [heap EXCEPT !.x_exact = xe]
          /\ IF callee = "ValueError"
             THEN /\ log' = Append(log, Raised(f, "ValueError"))
                  /\ UNCHANGED <<pc, fr>>
             ELSE /\ pc' = "entered"
                  /\ fr' = f
                  /\ UNCHANGED log
    /\ UNCHANGED <<given, env>>

-----------------------------------------------------------------------------
(* jacobi *)

\* R = A - D: A without its diagonal
Remainder(A) ==
    [i \in 1..Len(A) |-> [j \in 1..Len(A) |-> IF i = j THEN 0 ELSE A[i][j]]]

\* the diagonal of D_inv = sp.diags(1 / A.diagonal())
DInv(A) == Vec([i \in 1..Len(A) |-> RDiv(One, R(A[i][i]))])

\* x_new = D_inv.dot(b - R.dot(x))
\* D_inv.dot(t) for the diagonal matrix D_inv
DiagDot(dinv, t) == Vec([i \in 1..Len(t) |-> RMul(dinv[i], t[i])])

JacobiUpdate(A, b, x) == DiagDot(DInv(A), VSub(b, SparseDot(Remainder(A), x)))

JacobiSetup ==
    /\ pc = "entered"
    /\ fr.callee = "jacobi"
    /\ heap' = [heap EXCEPT !.x = InitialGuess(heap)]
    /\ pc' = "loop"
    /\ UNCHANGED <<given, env, fr, log>>

\* one pass of the loop: on break x keeps the previous iterate (x = x_new
\* comes after the test)
JacobiIter ==
    /\ pc = "loop"
    /\ fr.callee = "jacobi"
    /\ NextK(fr) < fr.max_iter
    /\ \E x_new \in {JacobiUpdate(heap.A, heap.b, heap.x)} :
       \E residual \in {VSub(SparseDot(heap.A, x_new), heap.b)} :
       \E rel_res \in {NormRatio(residual, heap.b)} :
       \E ps \in {Pass(x_new, <<>>, <<>>, rel_res)} :
          /\ PassFits(ps)
          /\ fr' = Passed(fr, ps)
          /\ IF BelowTol(rel_res, fr.tol)
             THEN pc' = "break" /\ heap' = heap
             ELSE pc' = "loop" /\ heap' = [heap EXCEPT !.x = x_new]
    /\ UNCHANGED <<given, env, log>>

JacobiReturn == Return("jacobi")

-----------------------------------------------------------------------------
(* gauss_seidel *)

\* a row of the dense array A.toarray()
RowVec(row) == Vec([j \in 1..Len(row) |-> R(row[j])])

\* dense A.dot(x)
DenseDot(A, x) == Vec([i \in 1..Len(A) |-> Dot(RowVec(A[i]), x)])

\* for i in range(n): x[i] = (b[i] - A[i,:i] @ x[:i] - A[i,i+1:] @ x_old[i+1:]) / A[i,i]
RECURSIVE GSSweepFrom(_, _, _, _, _)
GSSweepFrom(A, b, x, x_old, i) ==
    IF i > Len(A) THEN x
    ELSE LET n == Len(A)
             row == RowVec(A[i])
             before == Dot(SubSeq(row, 1, i - 1), SubSeq(x, 1, i - 1))
             after == Dot(SubSeq(row, i + 1, n), SubSeq(x_old, i + 1, n))
             xi == RDiv(RSub(RSub(b[i], before), after), R(A[i][i]))
         IN GSSweepFrom(A, b, [x EXCEPT ![i] = xi], x_old, i + 1)

GSSweep(A, b, x) == GSSweepFrom(A, b, x, x, 1)

GaussSeidelSetup ==
    /\ pc = "entered"
    /\ fr.callee = "gauss_seidel"
    /\ heap' = [heap EXCEPT !.x = InitialGuess(heap)]
    /\ pc' = "loop"
    /\ UNCHANGED <<given, env, fr, log>>

\* one sweep; x is updated in place, before the test
GaussSeidelIter ==
    /\ pc = "loop"
    /\ fr.callee = "gauss_seidel"
    /\ NextK(fr) < fr.max_iter
    /\ \E x \in {GSSweep(heap.A, heap.b, heap.x)} :
       \E residual \in {VSub(DenseDot(heap.A, x), heap.b)} :
       \E rel_res \in {NormRatio(residual, heap.b)} :
       \E ps \in {Pass(x, <<>>, <<>>, rel_res)} :
          /\ PassFits(ps)
          /\ fr' = Passed(fr, ps)
          /\ heap' = [heap EXCEPT !.x = x]
          /\ pc' = IF BelowTol(rel_res, fr.tol) THEN "break" ELSE "loop"
    /\ UNCHANGED <<given, env, log>>

GaussSeidelReturn == Return("gauss_seidel")

-----------------------------------------------------------------------------
(* gradient.  The arrays x and r live in the heap: x += ... writes the     *)
(* array x names, r = ... makes r name a new array.                        *)

\* plain steepest descent: the new direction is the new residual
GradientBetaZero(r_new, r) == Zero

\* beta = r_new.dot(r_new) / (r.dot(r))
GradientBeta(r_new, r) == RDiv(Dot(r_new, r_new), Dot(r, r))

\* x = np.zeros_like(b); r = b - A.dot(x); p = r.copy()
GradientSetup ==
    /\ pc = "entered"
    /\ fr.callee = "gradient"
    /\ \E x \in {InitialGuess(heap)} :
       \E r \in {VSub(heap.b, SparseDot(heap.A, x))} :
          /\ heap' = [heap EXCEPT !.x = x, !.r = r]
          /\ fr' = [fr EXCEPT !.rref = "r", !.p = r]
    /\ pc' = "loop"
    /\ UNCHANGED <<given, env, log>>

GradientIter ==
    /\ pc = "loop"
    /\ fr.callee = "gradient"
    /\ NextK(fr) < fr.max_iter
    /\ \E r \in {heap[fr.rref]}, p \in {fr.p} :
       \E Ap \in {SparseDot(heap.A, p)} :
       \E alpha \in {RDiv(Dot(r, r), Dot(p, Ap))} :
       \E x \in {VAdd(heap.x, VScale(alpha, p))} :
       \E r_new \in {VSub(r, VScale(alpha, Ap))} :
       \E h1 \in {[heap EXCEPT !.x = x]} :
       \E rel_res \in {NormRatio(r_new, h1.b)} :
       \E broke \in {BelowTol(rel_res, fr.tol)} :
       \E p1 \in {IF broke THEN p
                  ELSE VAdd(r_new, VScale(GradientBeta(r_new, r), p))} :
       \E ps \in {Pass(x, r_new, p1, rel_res)} :
          /\ PassFits(ps)
          /\ IF broke
             THEN /\ pc' = "break"
                  /\ heap' = h1
                  /\ fr' = Passed(fr, ps)
             ELSE /\ pc' = "loop"
                  /\ heap' = [h1 EXCEPT !.r = r_new]
                  /\ fr' = [Passed(fr, ps) EXCEPT !.rref = "r", !.p = p1]
    /\ UNCHANGED <<given, env, log>>

GradientReturn == Return("gradient")

-----------------------------------------------------------------------------
(* conjugate_gradient.  r -= ... writes the array r names.                 *)

\* r = b: no new array, r names the caller's b
CGInitResidualAliased(h) == [rref |-> "b", heap |-> h]

\* r = b - A.dot(x): a new array, which r names
CGInitResidual(h) ==
    [rref |-> "r", heap |-> [h EXCEPT !.r = VSub(h.b, SparseDot(h.A, h.x))]]

\* the direction without its conjugation term
CGDirectionResidual(r, rsnew, rsold, p) == r

\* p = r + (rsnew / rsold) * p
CGDirection(r, rsnew, rsold, p) == VAdd(r, VScale(RDiv(rsnew, rsold), p))

\* x = np.zeros_like(b); r = b - A.dot(x); p = r.copy(); rsold = r.dot(r)
ConjugateGradientSetup ==
    /\ pc = "entered"
    /\ fr.callee = "conjugate_gradient"
    /\ \E ir \in {CGInitResidual([heap EXCEPT !.x = InitialGuess(heap)])} :
       \E r \in {ir.heap[ir.rref]} :
          /\ heap' = ir.heap
          /\ fr' = [fr EXCEPT !.rref = ir.rref, !.p = r, !.rsold = Dot(r, r)]
    /\ pc' = "loop"
    /\ UNCHANGED <<given, env, log>>

ConjugateGradientIter ==
    /\ pc = "loop"
    /\ fr.callee = "conjugate_gradient"
    /\ NextK(fr) < fr.max_iter
    /\ \E p \in {fr.p} :
       \E Ap \in {SparseDot(heap.A, p)} :
       \E alpha \in {RDiv(fr.rsold, Dot(p, Ap))} :
       \E x \in {VAdd(heap.x, VScale(alpha, p))} :
       \E r \in {VSub(heap[fr.rref], VScale(alpha, Ap))} :
       \E h1 \in {[[heap EXCEPT !.x = x] EXCEPT ![fr.rref] = r]} :
       \E rsnew \in {Dot(r, r)} :
       \* np.sqrt(rsnew) / np.linalg.norm(b), squared
       \E rel_res \in {RDiv(rsnew, Dot(h1.b, h1.b))} :
       \E broke \in {BelowTol(rel_res, fr.tol)} :
       \E p1 \in {IF broke THEN p ELSE CGDirection(r, rsnew, fr.rsold, p)} :
       \E ps \in {Pass(x, r, p1, rel_res)} :
          /\ PassFits(ps)
          /\ heap' = h1
          /\ IF broke
             THEN /\ pc' = "break"
                  /\ fr' = Passed(fr, ps)
             ELSE /\ pc' = "loop"
                  /\ fr' = [Passed(fr, ps) EXCEPT !.p = p1, !.rsold = rsnew]
    /\ UNCHANGED <<given, env, log>>

ConjugateGradientReturn == Return("conjugate_gradient")

-----------------------------------------------------------------------------
(* The caller and the specifications *)

Next ==
    \/ \E id \in env.ids, tol \in env.tols, mi \in env.iters, sc \in env.scales :
         Call(id, tol, mi, sc)
    \/ JacobiSetup
    \/ JacobiIter
    \/ JacobiReturn
    \/ GaussSeidelSetup
    \/ GaussSeidelIter
    \/ GaussSeidelReturn
    \/ GradientSetup
    \/ GradientIter
    \/ GradientReturn
    \/ ConjugateGradientSetup
    \/ ConjugateGradientIter
    \/ ConjugateGradientReturn

Spec == Init /\ [][Next]_vars

SpecSession == InitSession /\ [][Next]_vars

SpecDispatch == InitDispatch /\ [][Next]_vars

-----------------------------------------------------------------------------
(* Properties.  Each is about the finished calls recorded in log.          *)

Calls == 1..Len(log)

Dim == Len(given.A)

IsDiagonal(A) == \A i, j \in 1..Len(A) : i # j => A[i][j] = 0

IsSymmetric(A) == \A i, j \in 1..Len(A) : A[i][j] = A[j][i]

\* M without row 1 and column j
Strike(M, j) ==
    [i \in 1..(Len(M) - 1) |->
        [c \in 1..(Len(M) - 1) |-> M[i + 1][IF c < j THEN c ELSE c + 1]]]

RECURSIVE Det(_)
Det(M) ==
    IF Len(M) = 0 THEN 1
    ELSE LET term(j) == (IF j % 2 = 1 THEN 1 ELSE -1) * M[1][j] * Det(Strike(M, j))
             sum[j \in 0..Len(M)] == IF j = 0 THEN 0 ELSE sum[j - 1] + term(j)
         IN sum[Len(M)]

Leading(A, m) == [i \in 1..m |-> [j \in 1..m |-> A[i][j]]]

\* symmetric with positive leading principal minors (Sylvester's criterion)
IsSPD(A) == IsSymmetric(A) /\ \A m \in 1..Len(A) : Det(Leading(A, m)) > 0

\* ||A x - b|| / ||b|| of a vector x, squared, computed from A and b
TrueRelRes(x) == NormRatio(VSub(DenseDot(given.A, x), given.b), given.b)

SameCall(e1, e2) ==
    e1.tol = e2.tol /\ e1.max_iter = e2.max_iter /\ e1.xe = e2.xe

SameResult(e1, e2) ==
    e1.outcome = e2.outcome /\ e1.x = e2.x /\ e1.iters = e2.iters /\ e1.err = e2.err

\* C1: jacobi on a diagonal A with b = A*ones returns after exactly 1
\* iteration with relative error 0, the returned vector being x_exact.
C1_JacobiDiagonalExact ==
    \A c \in Calls :
        (/\ log[c].id = K_jacobi
         /\ log[c].max_iter >= 1
         /\ IsDiagonal(given.A)
         /\ log[c].xe = Ones(Dim))
        => (/\ log[c].outcome = "returned"
            /\ log[c].iters = 1
            /\ log[c].err = Zero
            /\ log[c].x = log[c].xe)

\* C2: with max_iterations = 0 each of the four methods returns normally:
\* the solution is the zero vector, the count shows no completed update
\* (0, or 1 if the count is taken at loop entry), and no error is raised.
C2_ZeroIterationsReturn ==
    \A c \in Calls :
        (log[c].max_iter = 0 /\ log[c].id \in CanonicalIds)
        => (/\ log[c].outcome = "returned"
            /\ log[c].x = ZerosLike(given.b)
            /\ log[c].iters \in {0, 1})

\* C3: a solve that ended by meeting the tolerance returns the iterate whose
\* residual was tested, so ||A x - b|| / ||b|| < tol for the returned x
\* (left open where the exact residual does not fit the integers).
C3_ConvergedReturnsTested ==
    \A c \in Calls :
        (log[c].outcome = "returned" /\ log[c].exit = "break")
        => (/\ log[c].x = log[c].trace[Len(log[c].trace)].x
            /\ \/ IsOut(TrueRelRes(log[c].x))
               \/ BelowTol(TrueRelRes(log[c].x), log[c].tol))

\* C4 as stated: for max_iterations >= 1 the returned count equals
\* max_iterations exactly when the iterations were exhausted without meeting
\* the tolerance; a solve that met it returns a smaller count.
C4_CountTellsOutcome ==
    \A c \in Calls :
        (log[c].outcome = "returned" /\ log[c].max_iter >= 1)
        => (log[c].iters = log[c].max_iter <=> log[c].exit = "exhausted")

\* C4 amended: the count is the number of passes made; it equals
\* max_iterations when the iterations were exhausted, and lies in
\* 1..max_iterations when the tolerance was met, so a count below
\* max_iterations shows that the tolerance was met.
C4_CountBoundsOutcome ==
    \A c \in Calls :
        log[c].outcome = "returned"
        => (/\ log[c].iters = Len(log[c].trace)
            /\ log[c].exit = "exhausted" => log[c].iters = log[c].max_iter
            /\ log[c].exit = "break" => log[c].iters \in 1..log[c].max_iter
            /\ log[c].iters < log[c].max_iter => log[c].exit = "break")

\* a solve that met the tolerance on its last allowed pass
C4_Witness ==
    \E c \in Calls :
        /\ log[c].outcome = "returned"
        /\ log[c].exit = "break"
        /\ log[c].max_iter >= 2
        /\ log[c].iters = log[c].max_iter

\* C5: on a symmetric positive-definite A with b = A*ones and
\* max_iterations >= n, conjugate_gradient meets the tolerance within n
\* iterations and the returned x satisfies it (the residual of x left open
\* where it does not fit the integers).
C5_CGWithinN ==
    \A c \in Calls :
        (/\ log[c].id = K_conjugate_gradient
         /\ log[c].max_iter >= Dim
         /\ IsSPD(given.A))
        => (/\ log[c].outcome = "returned"
            /\ log[c].exit = "break"
            /\ log[c].iters <= Dim
            /\ \/ IsOut(TrueRelRes(log[c].x))
               \/ BelowTol(TrueRelRes(log[c].x), log[c].tol))

\* conjugate_gradient at tol 1e-8 needing all n = MaxDim iterations on an
\* SPD matrix
C5_Witness ==
    \E c \in Calls :
        /\ log[c].id = K_conjugate_gradient
        /\ IsSPD(given.A)
        /\ Dim = MaxDim
        /\ Dim >= 2
        /\ log[c].tol = <<1, 100000000>>
        /\ log[c].outcome = "returned"
        /\ log[c].iters = Dim
        /\ BelowTol(TrueRelRes(log[c].x), log[c].tol)

\* the spellings the dispatcher is to treat alike
AliasGroups ==
    {{K_gauss_seidel, K_gs, Id_Gauss_Seidel, Id_GAUSS_SEIDEL},
     {K_conjugate_gradient, K_cg, Id_CG, Id_Conjugate_Gradient},
     {K_gradient, K_grad},
     {K_jacobi, Id_Jacobi}}

\* C6: identifiers that differ only in case, in '-' or ' ' for '_', or that
\* are aliases of one name ('gs', 'cg', 'grad') give the same solution,
\* iteration count and error on the same A, b, x_exact, tol and max_iter.
C6_AliasSameResult ==
    \A c, d \in Calls :
        (/\ \E g \in AliasGroups : log[c].id \in g /\ log[d].id \in g
         /\ SameCall(log[c], log[d]))
        => (log[c].outcome = "returned" /\ SameResult(log[c], log[d]))

\* 'gs' and 'Gauss-Seidel' called one after the other, both iterating
C6_Witness ==
    /\ Len(log) = 2
    /\ log[1].id = K_gs
    /\ log[2].id = Id_Gauss_Seidel
    /\ log[2].outcome = "returned"
    /\ log[2].iters >= 2
    /\ ~IsDiagonal(given.A)

\* C7: an identifier whose normalized form is no key of method_map is
\* rejected with ValueError before any solver is entered: no solver frame
\* exists for it, no pass runs and no result is returned.
C7_InvalidRejected ==
    /\ pc # "idle" => NormalizeMethod(fr.id) \in DOMAIN MethodMap
    /\ \A c \in Calls :
          NormalizeMethod(log[c].id) \notin DOMAIN MethodMap
          => (/\ log[c].outcome = "ValueError"
              /\ log[c].trace = <<>>
              /\ log[c].x = <<>>)

\* 'jacobi ' (normalized to 'jacobi_') rejected after a successful call
C7_Witness ==
    /\ Len(log) = 2
    /\ log[1].outcome = "returned"
    /\ log[2].id = Id_jacobi_sp
    /\ log[2].outcome = "ValueError"
    /\ pc = "idle"

\* C8: two solves that agree on the method, A, b, tol and max_iterations
\* and differ in x_exact return the same solution and iteration count (and
\* made the same passes).
C8_XExactNoInfluence ==
    \A c, d \in Calls :
        (/\ log[c].id = log[d].id
         /\ log[c].tol = log[d].tol
         /\ log[c].max_iter = log[d].max_iter)
        => (/\ log[c].outcome = log[d].outcome
            /\ log[c].x = log[d].x
            /\ log[c].iters = log[d].iters
            /\ log[c].trace = log[d].trace)

\* the same solve with two different x_exact, reporting different errors
C8_Witness ==
    \E c, d \in Calls :
        /\ log[c].id = log[d].id
        /\ log[c].max_iter = log[d].max_iter
        /\ log[c].xe # log[d].xe
        /\ log[d].outcome = "returned"
        /\ log[d].iters >= 2
        /\ log[c].err # log[d].err

\* C9: no state is shared between calls: the caller's A and b are never
\* written and x_exact is as passed, so a call starts from the inputs as
\* they were built; and two calls with identical arguments return the same
\* outcome, iteration count, solution and error.
C9_NoHiddenState ==
    /\ heap.A = given.A
    /\ heap.b = given.b
    /\ pc # "idle" => heap.x_exact = fr.xe
    /\ \A c, d \in Calls :
          (log[c].id = log[d].id /\ SameCall(log[c], log[d]))
          => SameResult(log[c], log[d])

\* conjugate_gradient (which updates r in place) called twice alike
C9_Witness ==
    /\ Len(log) = 2
    /\ log[1].id = K_conjugate_gradient
    /\ log[2].id = K_conjugate_gradient
    /\ SameCall(log[1], log[2])
    /\ log[2].outcome = "returned"
    /\ log[2].iters >= 2

\* every number a call computed is finite: no zero denominator was met
AllFinite(e) ==
    \A i \in 1..Len(e.trace) :
        VecFinite(e.trace[i].x) /\ VecFinite(e.trace[i].r) /\ VecFinite(e.trace[i].p)

\* C10: for max_iterations >= 1 and no zero denominator, gradient and
\* conjugate_gradient on the same A, b and tol make the same passes (the
\* same x, residual and direction in each), stop at the same pass and
\* return the same solution and count.
C10_GradientIsCG ==
    \A c, d \in Calls :
        (/\ log[c].id = K_gradient
         /\ log[d].id = K_conjugate_gradient
         /\ log[c].tol = log[d].tol
         /\ log[c].max_iter = log[d].max_iter
         /\ log[c].max_iter >= 1
         /\ AllFinite(log[c])
         /\ AllFinite(log[d]))
        => (/\ log[c].trace = log[d].trace
            /\ log[c].exit = log[d].exit
            /\ log[c].x = log[d].x
            /\ log[c].iters = log[d].iters)

\* gradient and conjugate_gradient run one after the other for three passes
\* or more on a matrix that is not diagonal
C10_Witness ==
    \E c, d \in Calls :
        /\ log[c].id = K_gradient
        /\ log[d].id = K_conjugate_gradient
        /\ log[c].max_iter = log[d].max_iter
        /\ log[c].outcome = "returned"
        /\ log[d].outcome = "returned"
        /\ AllFinite(log[c])
        /\ log[c].iters >= 3
        /\ ~IsDiagonal(given.A)

====
